---- MODULE Spec2Model ----
(***************************************************************************)
(* Model of the noro-crypto dashboards: the fetch clients and the page     *)
(* renders that join them (src/lib/coingecko.ts, app/page.tsx,             *)
(* app/nasa/page.tsx) and the pure transformation helpers that turn the    *)
(* decoded payloads into chart-ready series.                               *)
(*                                                                         *)
(* Numbers.  JavaScript numbers are IEEE doubles.  Prices, volumes and     *)
(* counts are modelled as naturals; a quotient the code keeps unrounded    *)
(* (greenRate) is modelled as the exact rational [num, den], den > 0.      *)
(* On the values of the model Math.round((p / m) * 100) computed in        *)
(* doubles and the exact half-up rounding used here agree.                 *)
(* A field the feed may leave without data holds a number or the JSON      *)
(* value null: null is modelled as Null, the number n as Num(n).           *)
(***************************************************************************)
EXTENDS Integers, Sequences, FiniteSets, TLC

VARIABLES
    prices,      \* buildPriceBars / computeGreenRate argument: seq of <<ts, price>>
    maxPoints,   \* buildPriceBars argument
    priceBars,   \* result of buildPriceBars
    green,       \* result of computeGreenRate
    topCoins,    \* the coin list the coin helpers are applied to
    volumeBars,  \* result of buildVolumeBars
    marketShare, \* Page: the market shares of the top five coins
    topGainer,   \* Page: the coin with the largest 24h change, or Null
    topLoser,    \* Page: the coin with the smallest 24h change, or Null
    avgChange24h, \* Page: the mean 24h change
    nearEarthObjects, \* feed.near_earth_objects: seq of <<date, list>> entries
    flatNeos,    \* the flattened object list: result of flattenNeos (neoList)
    neoBars,     \* result of buildNeoBars
    hazards,     \* result of computeNeoHazards
    pickLimit,   \* pickClosestNeos argument (limit)
    closestNeos, \* result of pickClosestNeos
    flareList,   \* groupFlaresByDay argument (flares)
    flareByDay,  \* result of groupFlaresByDay
    called,      \* the helpers that have been applied to the inputs so far
    renderNo,    \* number of page renders started so far
    page,        \* the page being rendered: "crypto" or "nasa" ("none" before)
    pagePc,      \* Page: "idle", "awaiting" (at Promise.all), "rendered", "failed"
    fetchPc,     \* per fetch client: "idle", "pending", "decoding", "fulfilled", "rejected"
    calls,       \* per fetch client: fetch() calls issued in this render
    response,    \* per fetch client: what fetch() settled with in this render
    result,      \* per fetch client: the value or error its promise settled with
    all,         \* the Promise.all of the three client promises
    out,         \* what Page returned: Null, or Some(the derived data it renders)
    pageError,   \* what Page threw: Null, or Some(error)
    outcomes     \* history: how each earlier render ended, oldest first

priceVars == <<prices, maxPoints, priceBars, green>>
coinVars == <<topCoins, volumeBars, marketShare, topGainer, topLoser, avgChange24h>>
nasaVars ==
    <<nearEarthObjects, flatNeos, neoBars, hazards, pickLimit, closestNeos, flareList, flareByDay>>
renderVars ==
    <<renderNo, page, pagePc, fetchPc, calls, response, result, all, out, pageError,
      outcomes>>
vars == <<prices, maxPoints, priceBars, green, topCoins, volumeBars, marketShare,
          topGainer, topLoser, avgChange24h, nearEarthObjects, flatNeos, neoBars,
          hazards,
          pickLimit, closestNeos, flareList, flareByDay, called,
          renderNo, page, pagePc, fetchPc, calls, response, result, all, out,
          pageError, outcomes>>

----------------------------------------------------------------------------
(* Bounds of the model *)

MaxLen == 5          \* longest price series enumerated
MaxPrice == 3        \* prices range over 0..MaxPrice
MaxPoints == 3       \* bar counts range over 1..MaxPoints
SamplesPerDay == 2   \* timestamps per calendar day (irregular spacing allowed)
MaxCoins == 4        \* longest coin list enumerated
MaxVolume == 3       \* 24h volumes range over null and 0..MaxVolume
MaxRenders == 2      \* page renders (reloads) followed
MaxCap == 2          \* market caps range over null and 0..MaxCap
MaxChange == 2       \* 24h changes range over null and -MaxChange..MaxChange
MaxDays == 2         \* day keys of a NEO feed, drawn from the days 1..MaxDays + 1
MaxNeosPerDay == 2   \* objects listed under one day key
MaxNeos == 4         \* longest object list given to pickClosestNeos
MaxLimit == 2        \* limits range over 0..MaxLimit
MaxFlares == 3       \* longest flare list enumerated
MaxFlareDays == 3    \* flares begin on the days 0..MaxFlareDays - 1
MaxFrameCoins == 3   \* longest coin list the whole transform step is run on

----------------------------------------------------------------------------
(* JavaScript primitives used by the helpers *)

Null == <<>>
Num(n) == <<n>>

\* a value that may be absent (x ?? null): Null, or Some(x)
Some(x) == <<x>>

Max2(a, b) == IF a >= b THEN a ELSE b

\* Math.max(...values) for a non-empty sequence of numbers
RECURSIVE MathMax(_)
MathMax(values) ==
    IF Len(values) = 1 THEN values[1]
    ELSE Max2(values[1], MathMax(Tail(values)))

\* Math.round(num / den) for num >= 0, den > 0: nearest integer, halves up
MathRound(num, den) == (2 * num + den) \div (2 * den)

\* Array.prototype.filter((_, idx) => idx % step === 0), idx counted from 0
RECURSIVE FilterStep(_, _, _)
FilterStep(arr, idx, step) ==
    IF idx >= Len(arr) THEN <<>>
    ELSE (IF idx % step = 0 THEN <<arr[idx + 1]>> ELSE <<>>)
         \o FilterStep(arr, idx + 1, step)

\* mutant: the trailing slice(-maxPoints) forgotten
SliceLast_Forgotten(arr, n) == arr

\* Array.prototype.slice(-n) for n >= 1: the last n elements, or all of them
SliceLast(arr, n) ==
    IF n >= Len(arr) THEN arr
    ELSE SubSeq(arr, Len(arr) - n + 1, Len(arr))

\* new Date(ts).toLocaleDateString("en-US", {month: "short", day: "numeric"}):
\* the calendar day the timestamp falls on; the time of day is dropped
DateLabel(ts) == ts \div SamplesPerDay

\* ToNumber(x) for a number or null: null converts to 0
ToNumber(x) == IF x = Null THEN 0 ELSE x[1]

\* x || 0 for a number or null: null and 0 are falsy
OrZero(x) == IF x = Null \/ x[1] = 0 THEN 0 ELSE x[1]

\* String.prototype.toUpperCase on the ticker symbols of the model
ToUpperCase(str) ==
    CASE str = "btc" -> "BTC"
      [] str = "eth" -> "ETH"
      [] str = "usdt" -> "USDT"
      [] str = "bnb" -> "BNB"
      [] str = "sol" -> "SOL"
      [] str = "xrp" -> "XRP"
      [] OTHER -> str

\* Array.prototype.sort with a comparator that subtracts numeric keys, on the
\* sequence of <<key, item>> pairs: a stable sort, ascending by key.  One
\* insertion step puts x after every element whose key is not above its own.
\* mutant: an unstable sort, x put before the elements whose key equals its own
RECURSIVE InsertByKey_Unstable(_, _)
InsertByKey_Unstable(sorted, x) ==
    IF Len(sorted) = 0 THEN <<x>>
    ELSE IF sorted[1][1] < x[1]
         THEN <<sorted[1]>> \o InsertByKey_Unstable(Tail(sorted), x)
         ELSE <<x>> \o sorted

RECURSIVE InsertByKey(_, _)
InsertByKey(sorted, x) ==
    IF Len(sorted) = 0 THEN <<x>>
    ELSE IF sorted[1][1] <= x[1]
         THEN <<sorted[1]>> \o InsertByKey(Tail(sorted), x)
         ELSE <<x>> \o sorted

RECURSIVE StableSort(_)
StableSort(pairs) ==
    IF Len(pairs) = 0 THEN <<>>
    ELSE InsertByKey(StableSort(SubSeq(pairs, 1, Len(pairs) - 1)), pairs[Len(pairs)])

SortedItems(pairs) ==
    LET sorted == StableSort(pairs)
    IN  [k \in 1..Len(sorted) |-> sorted[k][2]]

\* a quotient kept as a double, modelled exactly
Rat(n, d) == [num |-> n, den |-> d]

----------------------------------------------------------------------------
(* lib/metrics: buildPriceBars *)

\* mutant: the first n of the retained samples kept, slice(0, maxPoints)
Sampled_KeepFirst(ps, n) ==
    LET step == Max2(1, Len(ps) \div n)
        kept == FilterStep(ps, 0, step)
    IN  SubSeq(kept, 1, IF n <= Len(kept) THEN n ELSE Len(kept))

\* mutant: the step rounded up, Math.ceil(length / maxPoints)
Sampled_CeilStep(ps, n) ==
    LET step == Max2(1, (Len(ps) + n - 1) \div n)
    IN  SliceLast(FilterStep(ps, 0, step), n)

Sampled(ps, n) ==
    LET step == Max2(1, Len(ps) \div n)
    IN  SliceLast(FilterStep(ps, 0, step), n)

\* mutant: Math.floor in place of Math.round
PriceHeight_Floor(price, maxValue) ==
    IF maxValue # 0 THEN (price * 100) \div maxValue ELSE 0

\* mutant: the ratio rounded without the scaling to a percentage
PriceHeight_NoPercent(price, maxValue) ==
    IF maxValue # 0 THEN MathRound(price, maxValue) ELSE 0

PriceHeight(price, maxValue) ==
    IF maxValue # 0 THEN MathRound(price * 100, maxValue) ELSE 0

buildPriceBars(ps, n) ==
    IF Len(ps) = 0 THEN <<>>
    ELSE LET sampled == Sampled(ps, n)
             values == [k \in 1..Len(sampled) |-> sampled[k][2]]
             maxValue == MathMax(values)
         IN  [k \in 1..Len(sampled) |->
                [label |-> DateLabel(sampled[k][1]),
                 value |-> sampled[k][2],
                 height |-> PriceHeight(sampled[k][2], maxValue)]]

----------------------------------------------------------------------------
(* lib/metrics: computeGreenRate *)

\* mutant: a flat move counted as a down move (else in place of else-if)
RECURSIVE GreenLoop_FlatIsDown(_, _, _, _)
GreenLoop_FlatIsDown(ps, i, up, down) ==
    IF i >= Len(ps) THEN [up |-> up, down |-> down]
    ELSE IF ps[i + 1][2] - ps[i][2] > 0
         THEN GreenLoop_FlatIsDown(ps, i + 1, up + 1, down)
         ELSE GreenLoop_FlatIsDown(ps, i + 1, up, down + 1)

\* mutant: a move counted as up when the price did not fall (>= in place of >)
RECURSIVE GreenLoop_FlatIsUp(_, _, _, _)
GreenLoop_FlatIsUp(ps, i, up, down) ==
    IF i >= Len(ps) THEN [up |-> up, down |-> down]
    ELSE IF ps[i + 1][2] - ps[i][2] >= 0
         THEN GreenLoop_FlatIsUp(ps, i + 1, up + 1, down)
         ELSE GreenLoop_FlatIsUp(ps, i + 1, up, down + 1)

RECURSIVE GreenLoop(_, _, _, _)
GreenLoop(ps, i, up, down) ==
    IF i >= Len(ps) THEN [up |-> up, down |-> down]
    ELSE LET prev == ps[i][2]
             curr == ps[i + 1][2]
             diff == curr - prev
         IN  IF diff > 0 THEN GreenLoop(ps, i + 1, up + 1, down)
             ELSE IF diff < 0 THEN GreenLoop(ps, i + 1, up, down + 1)
             ELSE GreenLoop(ps, i + 1, up, down)

\* mutant: the share of up moves returned as a fraction, not a percentage
GreenRateOf_Fraction(up, total) == IF total # 0 THEN Rat(up, total) ELSE Rat(0, 1)

GreenRateOf(up, total) == IF total # 0 THEN Rat(up * 100, total) ELSE Rat(0, 1)

computeGreenRate(ps) ==
    IF Len(ps) < 2 THEN [greenRate |-> Rat(0, 1), up |-> 0, down |-> 0]
    ELSE LET c == GreenLoop(ps, 1, 0, 0)
             total == c.up + c.down
         IN  [greenRate |-> GreenRateOf(c.up, total), up |-> c.up, down |-> c.down]

----------------------------------------------------------------------------
(* lib/metrics: buildVolumeBars *)

\* mutant: volumes normalised against their sum, as a market share would be
RECURSIVE MaxVolumeOf_Sum(_)
MaxVolumeOf_Sum(volumes) ==
    IF Len(volumes) = 0 THEN 0
    ELSE volumes[1] + MaxVolumeOf_Sum(Tail(volumes))

MaxVolumeOf(volumes) == MathMax(volumes)

VolumeHeight(volume, maxVolume) ==
    IF maxVolume # 0 THEN MathRound(ToNumber(volume) * 100, maxVolume) ELSE 0

\* mutant: coins without a positive volume left out of the chart
buildVolumeBars_DropEmpty(coins) ==
    LET kept == SelectSeq(coins, LAMBDA c : OrZero(c.total_volume) # 0)
    IN  IF Len(kept) = 0 THEN <<>>
        ELSE LET maxVolume == MaxVolumeOf([k \in 1..Len(kept) |-> OrZero(kept[k].total_volume)])
             IN  [k \in 1..Len(kept) |->
                    [label |-> ToUpperCase(kept[k].symbol),
                     value |-> kept[k].total_volume,
                     height |-> VolumeHeight(kept[k].total_volume, maxVolume)]]

buildVolumeBars(coins) ==
    IF Len(coins) = 0 THEN <<>>
    ELSE LET volumes == [k \in 1..Len(coins) |-> OrZero(coins[k].total_volume)]
             maxVolume == MaxVolumeOf(volumes)
         IN  [k \in 1..Len(coins) |->
                [label |-> ToUpperCase(coins[k].symbol),
                 value |-> coins[k].total_volume,
                 height |-> VolumeHeight(coins[k].total_volume, maxVolume)]]

----------------------------------------------------------------------------
(* app/page.tsx: market share of the top five coins *)

Top5Size == 5

RECURSIVE SumCaps(_)
SumCaps(coins) ==
    IF Len(coins) = 0 THEN 0
    ELSE OrZero(coins[1].market_cap) + SumCaps(Tail(coins))

\* mutant: the slice(0, n) forgotten
SliceFirst_All(arr, n) == arr

\* Array.prototype.slice(0, n)
SliceFirst(arr, n) == SubSeq(arr, 1, IF n <= Len(arr) THEN n ELSE Len(arr))

MarketShareOf(coins) ==
    LET top5 == SliceFirst(coins, Top5Size)
        totalTop5Cap == SumCaps(top5)
    IN  [k \in 1..Len(top5) |->
            [id |-> top5[k].id,
             name |-> top5[k].name,
             share |-> IF totalTop5Cap # 0
                       THEN Rat(ToNumber(top5[k].market_cap) * 100, totalTop5Cap)
                       ELSE Rat(0, 1)]]

----------------------------------------------------------------------------
(* app/page.tsx: top gainer, top loser, average 24h change *)

\* mutant: no filter, a null change taking part as the number 0
CoinsWithChange_All(coins) == coins

\* Array.prototype.filter(c => typeof c.price_change_percentage_24h === "number")
RECURSIVE CoinsWithChange(_)
CoinsWithChange(coins) ==
    IF Len(coins) = 0 THEN <<>>
    ELSE (IF coins[1].price_change_percentage_24h # Null THEN <<coins[1]>> ELSE <<>>)
         \o CoinsWithChange(Tail(coins))

\* mutant: both selections sorted ascending by change
SortByChange_Ascending(arr, sign) ==
    SortedItems([k \in 1..Len(arr) |->
                    <<ToNumber(arr[k].price_change_percentage_24h), arr[k]>>])

\* coinsWithChange.slice().sort(cmp), cmp(a, b) = sign * (a.change - b.change):
\* sign = 1 sorts ascending by change, sign = -1 descending; the sort is stable
SortByChange(arr, sign) ==
    SortedItems([k \in 1..Len(arr) |->
                    <<sign * ToNumber(arr[k].price_change_percentage_24h), arr[k]>>])

\* arr[0] ?? null
FirstOrNull(arr) == IF Len(arr) = 0 THEN Null ELSE Some(arr[1])

\* The arrays a selection works on: topCoins as fetched, coinsWithChange and
\* the copy that is sorted.  Of the array methods used only sort changes the
\* array it is called on; filter and slice return a new array.
ArraysOf(coins) == [topCoins |-> coins, coinsWithChange |-> <<>>, sorted |-> <<>>]

\* dst = arrays[src].filter(c => typeof c.price_change_percentage_24h === "number")
FilterInto(arrays, src, dst) == [arrays EXCEPT ![dst] = CoinsWithChange(arrays[src])]

\* dst = arrays[src].slice()
SliceInto(arrays, src, dst) == [arrays EXCEPT ![dst] = arrays[src]]

\* arrays[cell].sort(cmp): the array is sorted in place
SortInPlace(arrays, cell, sign) ==
    [arrays EXCEPT ![cell] = SortByChange(arrays[cell], sign)]

\* mutant: the fetched list itself sorted, topCoins.sort(cmp)[0]
SelectionArrays_SortFetched(coins, sign) ==
    LET inPlace == SortInPlace(ArraysOf(coins), "topCoins", sign)
    IN  [inPlace EXCEPT !.sorted = CoinsWithChange(inPlace.topCoins)]

\* the arrays after coinsWithChange.slice().sort(cmp); every selection reads
\* coinsWithChange as the filter left it, no sort being applied to it
SelectionArrays(coins, sign) ==
    SortInPlace(SliceInto(FilterInto(ArraysOf(coins), "topCoins", "coinsWithChange"),
                          "coinsWithChange", "sorted"),
                "sorted", sign)

TopGainerOf(coins) == FirstOrNull(SelectionArrays(coins, -1).sorted)

TopLoserOf(coins) == FirstOrNull(SelectionArrays(coins, 1).sorted)

RECURSIVE SumChanges(_)
SumChanges(coins) ==
    IF Len(coins) = 0 THEN 0
    ELSE ToNumber(coins[1].price_change_percentage_24h) + SumChanges(Tail(coins))

AvgChange24hOf(coins) ==
    LET coinsWithChange == CoinsWithChange(coins)
    IN  IF Len(coinsWithChange) > 0
        THEN Rat(SumChanges(coinsWithChange), Len(coinsWithChange))
        ELSE Rat(0, 1)

----------------------------------------------------------------------------
(* app/nasa/page.tsx: derived-data helpers.

   A calendar date string "YYYY-MM-DD" is modelled as its day number and an
   ISO timestamp string as its tick number, SamplesPerDay ticks to a day:
   the string order of either is the numeric order of the model.  A decimal
   string (miss distance, velocity) is modelled as its sequence of digits. *)

\* Number(str) for a string of decimal digits; Number("") is 0
RECURSIVE ParseNumber(_)
ParseNumber(digits) ==
    IF Len(digits) = 0 THEN 0
    ELSE 10 * ParseNumber(SubSeq(digits, 1, Len(digits) - 1)) + digits[Len(digits)]

\* new Date("YYYY-MM-DD"): the first tick of that day
DateParse(day) == day * SamplesPerDay

\* { ...obj, date }
WithDate(obj, date) ==
    [f \in DOMAIN obj \cup {"date"} |-> IF f = "date" THEN date ELSE obj[f]]

\* mutant: an object entered once, under the first day that lists it
RECURSIVE flattenNeos_Distinct(_)
flattenNeos_Distinct(entries) ==
    IF Len(entries) = 0 THEN <<>>
    ELSE LET front == flattenNeos_Distinct(SubSeq(entries, 1, Len(entries) - 1))
             date == entries[Len(entries)][1]
             list == entries[Len(entries)][2]
             fresh == SelectSeq(list, LAMBDA obj :
                          \A k \in 1..Len(front) : front[k].id # obj.id)
         IN  front \o [k \in 1..Len(fresh) |-> WithDate(fresh[k], date)]

\* feed.near_earth_objects is modelled as the sequence of its <<date, list>>
\* entries in Object.entries order, the date keys distinct
RECURSIVE flattenNeos(_)
flattenNeos(entries) ==
    IF Len(entries) = 0 THEN <<>>
    ELSE LET date == entries[1][1]
             list == entries[1][2]
         IN  [k \in 1..Len(list) |-> WithDate(list[k], date)]
             \o flattenNeos(Tail(entries))

\* feed.near_earth_objects[d]
NeosOn(entries, d) ==
    LET e == CHOOSE e \in {entries[k] : k \in 1..Len(entries)} : e[1] = d
    IN  e[2]

\* mutant: the day keys left in Object.keys order
SortedDays_Unsorted(entries) == [k \in 1..Len(entries) |-> entries[k][1]]

\* Object.keys(feed.near_earth_objects).sort()
SortedDays(entries) ==
    SortedItems([k \in 1..Len(entries) |-> <<entries[k][1], entries[k][1]>>])

NeoBarHeight(count, maxCount) ==
    IF maxCount # 0 THEN MathRound(count * 100, maxCount) ELSE 0

buildNeoBars(entries) ==
    LET days == SortedDays(entries)
    IN  IF Len(days) = 0 THEN <<>>
        ELSE LET counts == [k \in 1..Len(days) |-> Len(NeosOn(entries, days[k]))]
                 maxCount == MathMax(counts)
             IN  [k \in 1..Len(days) |->
                    [label |-> DateLabel(DateParse(days[k])),
                     count |-> counts[k],
                     height |-> NeoBarHeight(counts[k], maxCount)]]

\* mutant: every object counted as hazardous
CountHazardous_All(neos) == Len(neos)

RECURSIVE CountHazardous(_)
CountHazardous(neos) ==
    IF Len(neos) = 0 THEN 0
    ELSE (IF neos[1].is_potentially_hazardous_asteroid THEN 1 ELSE 0)
         + CountHazardous(Tail(neos))

\* the sum over the objects of estimated_diameter_min + estimated_diameter_max,
\* twice the sum of the mid diameters
RECURSIVE SumDiameterBounds(_)
SumDiameterBounds(neos) ==
    IF Len(neos) = 0 THEN 0
    ELSE neos[1].estimated_diameter.kilometers.estimated_diameter_min
         + neos[1].estimated_diameter.kilometers.estimated_diameter_max
         + SumDiameterBounds(Tail(neos))

\* mutant: the quotients taken without their guards for an empty list
computeNeoHazards_Unguarded(neos) ==
    [total |-> Len(neos),
     hazardous |-> CountHazardous(neos),
     hazardRate |-> Rat(CountHazardous(neos) * 100, Len(neos)),
     avgDiameterKm |-> Rat(SumDiameterBounds(neos), 2 * Len(neos))]

computeNeoHazards(neos) ==
    LET total == Len(neos)
        hazardous == CountHazardous(neos)
    IN  [total |-> total,
         hazardous |-> hazardous,
         hazardRate |-> IF total # 0 THEN Rat(hazardous * 100, total) ELSE Rat(0, 1),
         avgDiameterKm |-> IF total > 0
                           THEN Rat(SumDiameterBounds(neos), 2 * total)
                           ELSE Rat(0, 1)]

\* mutant: each object ranked by its last close-approach record
Enriched_LastApproach(neos) ==
    LET kept == SelectSeq(neos, LAMBDA n : Len(n.close_approach_data) > 0)
    IN  [k \in 1..Len(kept) |->
            LET lastApproach ==
                    kept[k].close_approach_data[Len(kept[k].close_approach_data)]
                withDate == WithDate(kept[k], lastApproach.close_approach_date)
            IN  [f \in DOMAIN withDate \cup {"missKm", "velocityKmPerSec"} |->
                    IF f = "missKm"
                    THEN ParseNumber(lastApproach.miss_distance.kilometers)
                    ELSE IF f = "velocityKmPerSec"
                    THEN ParseNumber(lastApproach.relative_velocity.kilometers_per_second)
                    ELSE withDate[f]]]

\* mutant: the day key attached by flattenNeos kept as the date
RECURSIVE Enriched_KeepDate(_)
Enriched_KeepDate(neos) ==
    IF Len(neos) = 0 THEN <<>>
    ELSE LET n == neos[1]
         IN  (IF Len(n.close_approach_data) = 0 THEN <<>>
              ELSE LET firstApproach == n.close_approach_data[1]
                   IN  <<[f \in DOMAIN n \cup {"missKm", "velocityKmPerSec"} |->
                            IF f = "missKm"
                            THEN ParseNumber(firstApproach.miss_distance.kilometers)
                            ELSE IF f = "velocityKmPerSec"
                            THEN ParseNumber(
                                   firstApproach.relative_velocity.kilometers_per_second)
                            ELSE n[f]]>>)
             \o Enriched_KeepDate(Tail(neos))

\* the map step of pickClosestNeos followed by filter(Boolean)
RECURSIVE Enriched(_)
Enriched(neos) ==
    IF Len(neos) = 0 THEN <<>>
    ELSE LET n == neos[1]
         IN  (IF Len(n.close_approach_data) = 0 THEN <<>>
              ELSE LET firstApproach == n.close_approach_data[1]
                       withDate == WithDate(n, firstApproach.close_approach_date)
                   IN  <<[f \in DOMAIN withDate \cup {"missKm", "velocityKmPerSec"} |->
                            IF f = "missKm"
                            THEN ParseNumber(firstApproach.miss_distance.kilometers)
                            ELSE IF f = "velocityKmPerSec"
                            THEN ParseNumber(
                                   firstApproach.relative_velocity.kilometers_per_second)
                            ELSE withDate[f]]>>)
             \o Enriched(Tail(neos))

\* items.sort((a, b) => a.missKm - b.missKm)
SortByMiss(items) ==
    SortedItems([k \in 1..Len(items) |-> <<items[k].missKm, items[k]>>])

\* the arrays of pickClosestNeos after its sort: the argument, and the array
\* that map and filter built, which is the one sort reorders
ClosestArrays(neos) ==
    LET built == [neos |-> neos, enriched |-> Enriched(neos)]
    IN  [built EXCEPT !.enriched = SortByMiss(built.enriched)]

pickClosestNeos(neos, limit) == SliceFirst(ClosestArrays(neos).enriched, limit)

\* mutant: the whole timestamp taken as the day
DayOf_Timestamp(beginTime) == beginTime

\* f.beginTime.slice(0, 10)
DayOf(beginTime) == beginTime \div SamplesPerDay

\* the Map of groupFlaresByDay as the sequence of its <<day, count>> entries in
\* insertion order: map.set(day, (map.get(day) ?? 0) + 1)
MapIncrement(entries, day) ==
    IF \E k \in 1..Len(entries) : entries[k][1] = day
    THEN [k \in 1..Len(entries) |->
            IF entries[k][1] = day THEN <<day, entries[k][2] + 1>> ELSE entries[k]]
    ELSE Append(entries, <<day, 1>>)

RECURSIVE FlareDayMap(_, _)
FlareDayMap(flares, entries) ==
    IF Len(flares) = 0 THEN entries
    ELSE FlareDayMap(Tail(flares), MapIncrement(entries, DayOf(flares[1].beginTime)))

groupFlaresByDay(flares) ==
    LET entries == FlareDayMap(flares, <<>>)
    IN  SortedItems([k \in 1..Len(entries) |->
                       <<entries[k][1], [date |-> entries[k][1], count |-> entries[k][2]]>>])

----------------------------------------------------------------------------
(* Fetch clients: lib/coingecko.ts getGlobalData, getTopCoins, getMarketChart
   and app/nasa/page.tsx fetchNASA with its three wrappers.

   fetch() either rejects (transport error) or resolves with a response
   [status, statusText, body], body being the JSON text's decoded value. *)

Slots == 1..3

\* the path each client requests, in the order of the page's Promise.all
Resource(p, i) ==
    IF p = "crypto"
    THEN <<"/global", "/coins/markets", "/coins/bitcoin/market_chart">>[i]
    ELSE <<"/planetary/apod", "/neo/rest/v1/feed", "/DONKI/FLR">>[i]

\* res.ok: the status is in 200..299
ResOk(res) == res.status >= 200 /\ res.status <= 299

\* what fetch() rejects with when no response arrives
FetchRejection == [name |-> "TypeError", message |-> <<"fetch failed">>]

\* new Error("Failed to fetch global data" | "... market coins" | "... market chart")
CoinGeckoError(i) ==
    [name |-> "Error",
     message |-> <<"Failed to fetch", <<"global data", "market coins", "market chart">>[i]>>]

\* new Error(`NASA API error: ${res.status} ${res.statusText}`)
NasaError(res) ==
    [name |-> "Error",
     message |-> <<"NASA API error:", ToString(res.status), res.statusText>>]

ClientError(p, i, res) == IF p = "crypto" THEN CoinGeckoError(i) ELSE NasaError(res)

\* data.sort((a, b) => a.date.localeCompare(b.date))
SortApods(data) == SortedItems([k \in 1..Len(data) |-> <<data[k].date, data[k]>>])

\* data.sort((a, b) => a.beginTime.localeCompare(b.beginTime))
SortFlares(data) == SortedItems([k \in 1..Len(data) |-> <<data[k].beginTime, data[k]>>])

\* mutant: getGlobalData returning the envelope instead of its data member
ClientValue_Envelope(p, i, json) ==
    IF p = "nasa" /\ i = 1 THEN SortApods(json)
    ELSE IF p = "nasa" /\ i = 3 THEN SortFlares(json)
    ELSE json

\* what each client returns for the decoded body json
ClientValue(p, i, json) ==
    IF p = "crypto" /\ i = 1 THEN json.data
    ELSE IF p = "nasa" /\ i = 1 THEN SortApods(json)
    ELSE IF p = "nasa" /\ i = 3 THEN SortFlares(json)
    ELSE json

----------------------------------------------------------------------------
(* The page components: what Page computes once Promise.all has fulfilled *)

PageMaxPoints == 12
ClosestLimit == 8

CryptoPage(globalData, coins, btcChart) ==
    LET g == computeGreenRate(btcChart.prices)
    IN  [globalData |-> globalData,
         priceBars |-> buildPriceBars(btcChart.prices, PageMaxPoints),
         greenRate |-> g.greenRate,
         up |-> g.up,
         down |-> g.down,
         volumeBars |-> buildVolumeBars(coins),
         marketShare |-> MarketShareOf(coins),
         topGainer |-> TopGainerOf(coins),
         topLoser |-> TopLoserOf(coins),
         avgChange24h |-> AvgChange24hOf(coins),
         coins |-> coins]

NasaPage(apods, neoFeed, flares) ==
    LET neoList == flattenNeos(neoFeed.near_earth_objects)
    IN  [neoBars |-> buildNeoBars(neoFeed.near_earth_objects),
         hazards |-> computeNeoHazards(neoList),
         closestNeos |-> pickClosestNeos(neoList, ClosestLimit),
         flareByDay |-> groupFlaresByDay(flares),
         flares |-> flares,
         featuredApod |-> IF Len(apods) = 0 THEN Null ELSE Some(apods[Len(apods)])]

PageOutput(p, values) ==
    IF p = "crypto" THEN CryptoPage(values[1], values[2], values[3])
    ELSE NasaPage(values[1], values[2], values[3])

----------------------------------------------------------------------------
(* Promise.all over the three client promises *)

AllPending == [state |-> "pending", reason |-> Null]

\* mutant: a join that waits for every promise to settle and never rejects
PromiseAll_AllSettled(prev, pcs, reason) ==
    IF prev.state # "pending" THEN prev
    ELSE IF \A i \in Slots : pcs[i] \in {"fulfilled", "rejected"}
         THEN [state |-> "fulfilled", reason |-> Null]
    ELSE prev

\* the state of Promise.all after a client promise settled, pcs being the
\* clients' states then and reason the error if that client rejected: the first
\* rejection rejects it, the last fulfilment fulfils it, and once settled it
\* stays as it is
PromiseAll(prev, pcs, reason) ==
    IF prev.state # "pending" THEN prev
    ELSE IF reason # Null THEN [state |-> "rejected", reason |-> reason]
    ELSE IF \A i \in Slots : pcs[i] = "fulfilled"
         THEN [state |-> "fulfilled", reason |-> Null]
    ELSE prev

----------------------------------------------------------------------------
(* Inputs of the helpers *)

\* a chronologically ascending series: the sample at position i has timestamp i
SeriesOf(f) == [i \in 1..Len(f) |-> <<i, f[i]>>]

\* the series enumerated: every series of 0..MaxLen prices in 0..MaxPrice
IsPriceSeries(ps) ==
    \E n \in 0..MaxLen : \E f \in [1..n -> 0..MaxPrice] : ps = SeriesOf(f)

\* the scenario series of spec section 8
ScenarioSeries == SeriesOf(<<100, 110, 105, 105, 120>>)

NoGreen == [greenRate |-> Rat(0, 1), up |-> 0, down |-> 0]

\* the coin ranked i-th by market cap, as /coins/markets lists it
Symbols == <<"btc", "eth", "usdt", "bnb", "sol", "xrp">>
Names == <<"Bitcoin", "Ethereum", "Tether", "BNB", "Solana", "XRP">>

Coin(i, cap, volume, change) ==
    [id |-> i,
     symbol |-> Symbols[((i - 1) % Len(Symbols)) + 1],
     name |-> Names[((i - 1) % Len(Names)) + 1],
     market_cap |-> cap,
     total_volume |-> volume,
     price_change_percentage_24h |-> change,
     market_cap_rank |-> i]

\* a number in lo..hi, or null (no data)
Nullable(lo, hi) == {Null} \cup {Num(v) : v \in lo..hi}

\* coin lists that differ in their 24h volumes, null (no data) included
IsVolumeList(coins) ==
    \E n \in 0..MaxCoins : \E f \in [1..n -> Nullable(0, MaxVolume)] :
        coins = [i \in 1..n |-> Coin(i, Num(1), f[i], Null)]

\* coin lists that differ in their market caps, up to one coin more than the
\* top five
IsCapList(coins) ==
    \E n \in 0..(Top5Size + 1) : \E f \in [1..n -> Nullable(0, MaxCap)] :
        coins = [i \in 1..n |-> Coin(i, f[i], Num(1), Null)]

\* coin lists that differ in their 24h changes, null (no data) included
IsChangeList(coins) ==
    \E n \in 0..MaxCoins : \E f \in [1..n -> Nullable(-MaxChange, MaxChange)] :
        coins = [i \in 1..n |-> Coin(i, Num(1), Num(1), f[i])]

\* decoded response bodies the upstream APIs may send for each resource
GlobalBodies ==
    {[data |-> [active_cryptocurrencies |-> n,
                markets |-> n,
                market_cap_change_percentage_24h_usd |-> 0]] : n \in 1..2}

PageCoins ==
    LET volumes == <<Num(3), Null, Num(1), Num(0), Num(2), Num(3)>>
        changes == <<Num(1), Null, Num(-2), Num(1), Num(-2), Num(0)>>
    IN  [i \in 1..6 |-> Coin(i, Num(7 - i), volumes[i], changes[i])]

MarketBodies == {<<>>, SubSeq(PageCoins, 1, 2), PageCoins}

ChartBodies ==
    {[prices |-> ps, market_caps |-> <<>>, total_volumes |-> <<>>] :
        ps \in {<<>>, ScenarioSeries}}

Apod(day) == [date |-> day, title |-> "apod", media_type |-> "image"]

ApodBodies == {<<>>, <<Apod(3), Apod(1), Apod(2)>>}

Approach(day, missDigits, velocityDigits) ==
    [close_approach_date |-> day,
     miss_distance |-> [kilometers |-> missDigits],
     relative_velocity |-> [kilometers_per_second |-> velocityDigits],
     orbiting_body |-> "Earth"]

Neo(id, hazardous, dmin, dmax, approaches) ==
    [id |-> id,
     name |-> id,
     is_potentially_hazardous_asteroid |-> hazardous,
     estimated_diameter |->
        [kilometers |-> [estimated_diameter_min |-> dmin,
                         estimated_diameter_max |-> dmax]],
     close_approach_data |-> approaches]

PageFeed ==
    <<<<2, <<Neo("a", TRUE, 1, 3, <<Approach(2, <<1, 0>>, <<7>>)>>)>>>>,
      <<1, <<Neo("b", FALSE, 2, 2, <<Approach(1, <<9>>, <<5>>), Approach(4, <<1>>, <<5>>)>>),
             Neo("c", FALSE, 1, 1, <<>>)>>>>>>

NeoFeedBodies ==
    {[element_count |-> 0, near_earth_objects |-> <<>>],
     [element_count |-> 3, near_earth_objects |-> PageFeed]}

\* the objects listed under day key day, one per hazard flag in flags; the
\* object with id k may be listed under several days
DayNeos(day, flags) ==
    [k \in 1..Len(flags) |-> Neo(k, flags[k], 1, 1 + k, <<>>)]

\* the object lists of a day differ in length and in the hazard flags
DayFlags == UNION {[1..m -> BOOLEAN] : m \in 0..MaxNeosPerDay}

\* feeds of 0..MaxDays distinct day keys in any insertion order
IsNeoFeed(entries) ==
    \E n \in 0..MaxDays :
        \E days \in [1..n -> 1..(MaxDays + 1)] :
            /\ \A i, j \in 1..n : i # j => days[i] # days[j]
            /\ \E flags \in [1..n -> DayFlags] :
                  entries = [k \in 1..n |-> <<days[k], DayNeos(days[k], flags[k])>>]

\* miss distances as the feed sends them, decimal strings: 3, 5 and 10 km
Misses == {<<3>>, <<5>>, <<1, 0>>}

\* the close-approach records of an object: none, one, or two of which the
\* later is the closer (1 km)
ApproachLists ==
    {<<>>}
    \cup {<<Approach(2, m, <<7>>)>> : m \in Misses}
    \cup {<<Approach(2, m, <<7>>), Approach(3, <<1>>, <<9>>)>> : m \in Misses}

\* the day key the objects given to pickClosestNeos were listed under, earlier
\* than the day of every close-approach record
FlattenDay == 1

\* flattened object lists of 0..MaxNeos objects that differ in their records
IsApproachList(neos) ==
    \E n \in 0..MaxNeos : \E f \in [1..n -> ApproachLists] :
        neos = [k \in 1..n |-> WithDate(Neo(k, k % 2 = 0, 1, k, f[k]), FlattenDay)]

\* the fixture of spec section 8: ten objects, three of them hazardous
HazardFixture ==
    <<<<1, DayNeos(1, [k \in 1..10 |-> k \in {2, 5, 9}])>>>>

Flare(id, beginTime) == [flrID |-> id, beginTime |-> beginTime, classType |-> "M"]

\* flare lists in any order, several flares at one time allowed
IsFlareList(list) ==
    \E n \in 0..MaxFlares :
        \E f \in [1..n -> 0..(MaxFlareDays * SamplesPerDay - 1)] :
            list = [k \in 1..n |-> Flare(k, f[k])]

FlareBodies == {<<>>, <<Flare("f3", 5), Flare("f1", 2), Flare("f2", 3)>>}

Bodies(p, i) ==
    IF p = "crypto"
    THEN (IF i = 1 THEN GlobalBodies ELSE IF i = 2 THEN MarketBodies ELSE ChartBodies)
    ELSE (IF i = 1 THEN ApodBodies ELSE IF i = 2 THEN NeoFeedBodies ELSE FlareBodies)

StatusText(status) ==
    CASE status = 200 -> "OK"
      [] status = 404 -> "Not Found"
      [] status = 429 -> "Too Many Requests"
      [] OTHER -> "Internal Server Error"

\* what fetch() may settle with: no response at all, a success response with
\* a body of the resource, or an error response
TransportFailure == [kind |-> "failure", status |-> 0, statusText |-> "", body |-> Null]

HttpResponse(status, body) ==
    [kind |-> "response", status |-> status, statusText |-> StatusText(status),
     body |-> body]

Responses(p, i) ==
    {TransportFailure}
    \cup {HttpResponse(200, b) : b \in Bodies(p, i)}
    \cup {HttpResponse(st, Null) : st \in {404, 429, 500}}

IdleRender ==
    /\ renderNo = 0
    /\ page = "none"
    /\ pagePc = "idle"
    /\ fetchPc = [i \in Slots |-> "idle"]
    /\ calls = [i \in Slots |-> 0]
    /\ response = [i \in Slots |-> Null]
    /\ result = [i \in Slots |-> Null]
    /\ all = AllPending
    /\ out = Null
    /\ pageError = Null
    /\ outcomes = <<>>

IdlePrice ==
    /\ prices = <<>>
    /\ maxPoints = 1
    /\ priceBars = <<>>
    /\ green = NoGreen

\* nothing derived from the coin list yet
NoCoinResults ==
    /\ volumeBars = <<>>
    /\ marketShare = <<>>
    /\ topGainer = Null
    /\ topLoser = Null
    /\ avgChange24h = Rat(0, 1)

IdleCoins ==
    /\ topCoins = <<>>
    /\ NoCoinResults

NoHazards ==
    [total |-> 0, hazardous |-> 0, hazardRate |-> Rat(0, 1), avgDiameterKm |-> Rat(0, 1)]

\* nothing derived from the NASA payloads yet
NoNasaResults ==
    /\ flatNeos = <<>>
    /\ neoBars = <<>>
    /\ hazards = NoHazards
    /\ closestNeos = <<>>
    /\ flareByDay = <<>>

IdleNasa ==
    /\ nearEarthObjects = <<>>
    /\ pickLimit = 0
    /\ flareList = <<>>
    /\ NoNasaResults

----------------------------------------------------------------------------
(* The price helpers applied to an enumerated series *)

InitPrice ==
    /\ (IsPriceSeries(prices) \/ prices = ScenarioSeries)
    /\ maxPoints \in 1..MaxPoints
    /\ priceBars = <<>>
    /\ green = NoGreen
    /\ IdleCoins
    /\ IdleNasa
    /\ IdleRender
    /\ called = {}

CallBuildPriceBars ==
    /\ "buildPriceBars" \notin called
    /\ priceBars' = buildPriceBars(prices, maxPoints)
    /\ called' = called \cup {"buildPriceBars"}
    /\ UNCHANGED <<prices, maxPoints, green, coinVars, nasaVars, renderVars>>

CallComputeGreenRate ==
    /\ "computeGreenRate" \notin called
    /\ green' = computeGreenRate(prices)
    /\ called' = called \cup {"computeGreenRate"}
    /\ UNCHANGED <<prices, maxPoints, priceBars, coinVars, nasaVars, renderVars>>

NextPrice == CallBuildPriceBars \/ CallComputeGreenRate

SpecPrice == InitPrice /\ [][NextPrice]_vars

----------------------------------------------------------------------------
(* buildVolumeBars applied to an enumerated coin list *)

InitVolume ==
    /\ IsVolumeList(topCoins)
    /\ NoCoinResults
    /\ IdlePrice
    /\ IdleNasa
    /\ IdleRender
    /\ called = {}

CallBuildVolumeBars ==
    /\ "buildVolumeBars" \notin called
    /\ volumeBars' = buildVolumeBars(topCoins)
    /\ called' = called \cup {"buildVolumeBars"}
    /\ UNCHANGED <<topCoins, marketShare, topGainer, topLoser, avgChange24h>>
    /\ UNCHANGED <<priceVars, nasaVars, renderVars>>

NextVolume == CallBuildVolumeBars

SpecVolume == InitVolume /\ [][NextVolume]_vars

----------------------------------------------------------------------------
(* The market share computation of Page applied to an enumerated coin list *)

InitShare ==
    /\ IsCapList(topCoins)
    /\ NoCoinResults
    /\ IdlePrice
    /\ IdleNasa
    /\ IdleRender
    /\ called = {}

ComputeMarketShare ==
    /\ "marketShare" \notin called
    /\ marketShare' = MarketShareOf(topCoins)
    /\ called' = called \cup {"marketShare"}
    /\ UNCHANGED <<topCoins, volumeBars, topGainer, topLoser, avgChange24h>>
    /\ UNCHANGED <<priceVars, nasaVars, renderVars>>

NextShare == ComputeMarketShare

SpecShare == InitShare /\ [][NextShare]_vars

----------------------------------------------------------------------------
(* The 24h change statistics of Page applied to an enumerated coin list *)

InitChange ==
    /\ IsChangeList(topCoins)
    /\ NoCoinResults
    /\ IdlePrice
    /\ IdleNasa
    /\ IdleRender
    /\ called = {}

PickTopGainer ==
    /\ "topGainer" \notin called
    /\ topGainer' = TopGainerOf(topCoins)
    /\ topCoins' = SelectionArrays(topCoins, -1).topCoins
    /\ called' = called \cup {"topGainer"}
    /\ UNCHANGED <<volumeBars, marketShare, topLoser, avgChange24h>>
    /\ UNCHANGED <<priceVars, nasaVars, renderVars>>

PickTopLoser ==
    /\ "topLoser" \notin called
    /\ topLoser' = TopLoserOf(topCoins)
    /\ topCoins' = SelectionArrays(topCoins, 1).topCoins
    /\ called' = called \cup {"topLoser"}
    /\ UNCHANGED <<volumeBars, marketShare, topGainer, avgChange24h>>
    /\ UNCHANGED <<priceVars, nasaVars, renderVars>>

ComputeAvgChange24h ==
    /\ "avgChange24h" \notin called
    /\ avgChange24h' = AvgChange24hOf(topCoins)
    /\ called' = called \cup {"avgChange24h"}
    /\ UNCHANGED <<topCoins, volumeBars, marketShare, topGainer, topLoser>>
    /\ UNCHANGED <<priceVars, nasaVars, renderVars>>

NextChange == PickTopGainer \/ PickTopLoser \/ ComputeAvgChange24h

SpecChange == InitChange /\ [][NextChange]_vars

----------------------------------------------------------------------------
(* flattenNeos, buildNeoBars and computeNeoHazards applied to an enumerated
   feed; computeNeoHazards takes the list flattenNeos returned *)

InitNeo ==
    /\ (IsNeoFeed(nearEarthObjects) \/ nearEarthObjects = HazardFixture)
    /\ pickLimit = 0
    /\ flareList = <<>>
    /\ NoNasaResults
    /\ IdlePrice
    /\ IdleCoins
    /\ IdleRender
    /\ called = {}

CallFlattenNeos ==
    /\ "flattenNeos" \notin called
    /\ flatNeos' = flattenNeos(nearEarthObjects)
    /\ called' = called \cup {"flattenNeos"}
    /\ UNCHANGED <<nearEarthObjects, neoBars, hazards, pickLimit, closestNeos,
                   flareList, flareByDay>>
    /\ UNCHANGED <<priceVars, coinVars, renderVars>>

CallBuildNeoBars ==
    /\ "buildNeoBars" \notin called
    /\ neoBars' = buildNeoBars(nearEarthObjects)
    /\ called' = called \cup {"buildNeoBars"}
    /\ UNCHANGED <<nearEarthObjects, flatNeos, hazards, pickLimit, closestNeos,
                   flareList, flareByDay>>
    /\ UNCHANGED <<priceVars, coinVars, renderVars>>

CallComputeNeoHazards ==
    /\ "flattenNeos" \in called
    /\ "computeNeoHazards" \notin called
    /\ hazards' = computeNeoHazards(flatNeos)
    /\ called' = called \cup {"computeNeoHazards"}
    /\ UNCHANGED <<nearEarthObjects, flatNeos, neoBars, pickLimit, closestNeos,
                   flareList, flareByDay>>
    /\ UNCHANGED <<priceVars, coinVars, renderVars>>

NextNeo == CallFlattenNeos \/ CallBuildNeoBars \/ CallComputeNeoHazards

SpecNeo == InitNeo /\ [][NextNeo]_vars

----------------------------------------------------------------------------
(* pickClosestNeos applied to an enumerated object list and limit *)

InitClosest ==
    /\ IsApproachList(flatNeos)
    /\ pickLimit \in 0..MaxLimit
    /\ nearEarthObjects = <<>>
    /\ neoBars = <<>>
    /\ hazards = NoHazards
    /\ closestNeos = <<>>
    /\ flareList = <<>>
    /\ flareByDay = <<>>
    /\ IdlePrice
    /\ IdleCoins
    /\ IdleRender
    /\ called = {}

CallPickClosestNeos ==
    /\ "pickClosestNeos" \notin called
    /\ closestNeos' = pickClosestNeos(flatNeos, pickLimit)
    /\ flatNeos' = ClosestArrays(flatNeos).neos
    /\ called' = called \cup {"pickClosestNeos"}
    /\ UNCHANGED <<nearEarthObjects, neoBars, hazards, pickLimit,
                   flareList, flareByDay>>
    /\ UNCHANGED <<priceVars, coinVars, renderVars>>

NextClosest == CallPickClosestNeos

SpecClosest == InitClosest /\ [][NextClosest]_vars

----------------------------------------------------------------------------
(* groupFlaresByDay applied to an enumerated flare list *)

InitFlares ==
    /\ IsFlareList(flareList)
    /\ nearEarthObjects = <<>>
    /\ pickLimit = 0
    /\ NoNasaResults
    /\ IdlePrice
    /\ IdleCoins
    /\ IdleRender
    /\ called = {}

CallGroupFlaresByDay ==
    /\ "groupFlaresByDay" \notin called
    /\ flareByDay' = groupFlaresByDay(flareList)
    /\ called' = called \cup {"groupFlaresByDay"}
    /\ UNCHANGED <<nearEarthObjects, flatNeos, neoBars, hazards, pickLimit,
                   closestNeos, flareList>>
    /\ UNCHANGED <<priceVars, coinVars, renderVars>>

NextFlares == CallGroupFlaresByDay

SpecFlares == InitFlares /\ [][NextFlares]_vars

----------------------------------------------------------------------------
(* The transform step of Page: Promise.all has fulfilled, result holds the
   values the clients returned, and prices and topCoins are the arrays
   btcChart.prices and topCoins as the statements of Page find and leave
   them.  The statements do not depend on each other's results, so they are
   taken in any order. *)

\* coin lists that differ in their 24h changes: -1, 0, 1 or null
IsFrameCoinList(coins) ==
    \E n \in 0..MaxFrameCoins : \E f \in [1..n -> Nullable(-1, 1)] :
        coins = [i \in 1..n |-> Coin(i, Num(1), Num(i), f[i])]

\* the bodies of the three responses when the markets list is coins and the
\* chart's price series is ps
FetchedBodies(coins, ps) ==
    <<[data |-> [active_cryptocurrencies |-> 1,
                 markets |-> 1,
                 market_cap_change_percentage_24h_usd |-> 0]],
      coins,
      [prices |-> ps, market_caps |-> <<>>, total_volumes |-> <<>>]>>

InitFrame ==
    /\ IsFrameCoinList(topCoins)
    /\ prices \in {<<>>, ScenarioSeries}
    /\ maxPoints = MaxPoints
    /\ priceBars = <<>>
    /\ green = NoGreen
    /\ NoCoinResults
    /\ IdleNasa
    /\ called = {}
    /\ renderNo = 1
    /\ page = "crypto"
    /\ pagePc = "transforming"
    /\ fetchPc = [i \in Slots |-> "fulfilled"]
    /\ calls = [i \in Slots |-> 1]
    /\ response = [i \in Slots |->
                      Some(HttpResponse(200, FetchedBodies(topCoins, prices)[i]))]
    /\ result = [i \in Slots |->
                    Some(ClientValue("crypto", i, FetchedBodies(topCoins, prices)[i]))]
    /\ all = [state |-> "fulfilled", reason |-> Null]
    /\ out = Null
    /\ pageError = Null
    /\ outcomes = <<>>

NextFrame ==
    \/ CallBuildPriceBars
    \/ CallComputeGreenRate
    \/ CallBuildVolumeBars
    \/ ComputeMarketShare
    \/ PickTopGainer
    \/ PickTopLoser
    \/ ComputeAvgChange24h

SpecFrame == InitFrame /\ [][NextFrame]_vars

----------------------------------------------------------------------------
(* A page render: Page calls its three clients, awaits Promise.all of their
   promises and then computes and returns what it renders.  A later render
   (a reload) is a new call of Page. *)

Init ==
    /\ IdlePrice
    /\ IdleCoins
    /\ IdleNasa
    /\ called = {}
    /\ IdleRender

\* mutant: the client promises kept across renders, settled ones not re-issued
IssueFetches_Memoized(prevPc) ==
    [i \in Slots |-> IF prevPc[i] \in {"fulfilled", "rejected"} THEN prevPc[i] ELSE "pending"]

\* Page calls the three clients; each runs to its await of fetch()
IssueFetches(prevPc) == [i \in Slots |-> "pending"]

\* Page is called for page p and runs to its await of Promise.all
StartRender(p) ==
    /\ pagePc \in {"idle", "rendered", "failed"}
    /\ renderNo < MaxRenders
    /\ renderNo' = renderNo + 1
    /\ page' = p
    /\ pagePc' = "awaiting"
    /\ fetchPc' = IssueFetches(fetchPc)
    /\ calls' = [i \in Slots |-> 1]
    /\ response' = [i \in Slots |-> Null]
    /\ result' = [i \in Slots |-> Null]
    /\ all' = AllPending
    /\ out' = Null
    /\ pageError' = Null
    /\ outcomes' = IF pagePc = "idle" THEN outcomes ELSE Append(outcomes, pagePc)
    /\ UNCHANGED <<priceVars, coinVars, nasaVars, called>>

\* fetch() of client i settles; the client throws on a rejection or a
\* non-ok response and otherwise goes on to await res.json()
Respond(i) ==
    /\ fetchPc[i] = "pending"
    /\ \E res \in Responses(page, i) :
          /\ response' = [response EXCEPT ![i] = Some(res)]
          /\ IF res.kind = "failure"
             THEN /\ fetchPc' = [fetchPc EXCEPT ![i] = "rejected"]
                  /\ result' = [result EXCEPT ![i] = Some(FetchRejection)]
                  /\ all' = PromiseAll(all, fetchPc', Some(FetchRejection))
             ELSE IF ~ResOk(res)
             THEN /\ fetchPc' = [fetchPc EXCEPT ![i] = "rejected"]
                  /\ result' = [result EXCEPT ![i] = Some(ClientError(page, i, res))]
                  /\ all' = PromiseAll(all, fetchPc', Some(ClientError(page, i, res)))
             ELSE /\ fetchPc' = [fetchPc EXCEPT ![i] = "decoding"]
                  /\ UNCHANGED <<result, all>>
    /\ UNCHANGED <<renderNo, page, pagePc, calls, out, pageError, outcomes>>
    /\ UNCHANGED <<priceVars, coinVars, nasaVars, called>>

\* res.json() of client i resolves and the client returns
Decode(i) ==
    /\ fetchPc[i] = "decoding"
    /\ fetchPc' = [fetchPc EXCEPT ![i] = "fulfilled"]
    /\ result' = [result EXCEPT ![i] = Some(ClientValue(page, i, response[i][1].body))]
    /\ all' = PromiseAll(all, fetchPc', Null)
    /\ UNCHANGED <<renderNo, page, pagePc, calls, response, out, pageError, outcomes>>
    /\ UNCHANGED <<priceVars, coinVars, nasaVars, called>>

\* Page resumes from its await: it throws what Promise.all rejected with, or
\* computes the derived data and returns
PageResume ==
    /\ pagePc = "awaiting"
    /\ all.state # "pending"
    /\ IF all.state = "fulfilled"
       THEN /\ pagePc' = "rendered"
            /\ out' = Some(PageOutput(page, [i \in Slots |-> result[i][1]]))
            /\ UNCHANGED pageError
       ELSE /\ pagePc' = "failed"
            /\ pageError' = all.reason
            /\ UNCHANGED out
    /\ UNCHANGED <<renderNo, page, fetchPc, calls, response, result, all, outcomes>>
    /\ UNCHANGED <<priceVars, coinVars, nasaVars, called>>

Next ==
    \/ \E p \in {"crypto", "nasa"} : StartRender(p)
    \/ \E i \in Slots : Respond(i)
    \/ \E i \in Slots : Decode(i)
    \/ PageResume

Spec == Init /\ [][Next]_vars

----------------------------------------------------------------------------
(* Reference notions the render claims are stated with *)

Range(seq) == {seq[k] : k \in 1..Len(seq)}

\* client i has received an HTTP response in this render
GotResponse(i) == response[i] # Null /\ response[i][1].kind = "response"

\* ... whose status is in the success range
GotSuccess(i) == GotResponse(i) /\ response[i][1].status \in 200..299

\* fetch() of client i has settled without a success response
GotFailure(i) == response[i] # Null /\ ~GotSuccess(i)

\* the words by which an error message can tell which resource was fetched
ResourceTerms(p, i) ==
    IF p = "crypto"
    THEN <<{"/global", "global", "global data"},
           {"/coins/markets", "markets", "market coins"},
           {"/coins/bitcoin/market_chart", "market_chart", "market chart"}>>[i]
    ELSE <<{"/planetary/apod", "apod", "APOD"},
           {"/neo/rest/v1/feed", "feed", "NEO"},
           {"/DONKI/FLR", "FLR", "DONKI"}>>[i]

CarriesResource(err, p, i) == Range(err.message) \cap ResourceTerms(p, i) # {}

CarriesStatus(err, status) == ToString(status) \in Range(err.message)

\* sorted is arr reordered, its keys (given in its order) ascending
IsSortedCopy(sorted, arr, keys) ==
    /\ Len(sorted) = Len(arr)
    /\ \A x \in Range(arr) :
          Cardinality({k \in 1..Len(arr) : arr[k] = x})
            = Cardinality({k \in 1..Len(sorted) : sorted[k] = x})
    /\ \A k \in 1..(Len(keys) - 1) : keys[k] <= keys[k + 1]

(* C1: a page render issues its three fetches concurrently and computes and
   renders only after all three have succeeded; under every interleaving of
   the completions, once any fetch has failed the join is rejected, the
   render fails as a whole and no derived data or partial page is produced. *)
C1_AllOrNothingJoin ==
    /\ (pagePc # "idle" => \A i \in Slots : fetchPc[i] # "idle" /\ calls[i] >= 1)
    /\ (pagePc = "rendered" =>
           /\ \A i \in Slots : fetchPc[i] = "fulfilled" /\ GotSuccess(i)
           /\ out # Null
           /\ pageError = Null)
    /\ (out # Null => pagePc = "rendered")
    /\ ((\E i \in Slots : fetchPc[i] = "rejected" \/ GotFailure(i)) =>
           /\ all.state = "rejected"
           /\ pagePc \in {"awaiting", "failed"}
           /\ out = Null)
    /\ (pagePc = "failed" =>
           /\ out = Null
           /\ pageError # Null
           /\ \E i \in Slots : fetchPc[i] = "rejected" /\ pageError = result[i])

\* the render has failed on one fetch while another had succeeded and the
\* third is still in flight
C1_Witness ==
    /\ pagePc = "failed"
    /\ \E i, j, k \in Slots :
          /\ fetchPc[i] = "rejected"
          /\ fetchPc[j] = "fulfilled"
          /\ fetchPc[k] = "pending"

\* all three fetches succeeded in an order other than the call order
C1_RenderedReached ==
    /\ pagePc = "rendered"
    /\ page = "nasa"
    /\ Len(out[1].neoBars) > 0

(* C2 as stated: every fetch client returns the decoded JSON payload when
   the response status is in the success range, and otherwise fails with an
   error that carries both the resource it was fetching and the HTTP status
   of the response. *)
C2_Original ==
    \A i \in Slots :
        /\ (GotSuccess(i) /\ fetchPc[i] # "decoding" =>
               fetchPc[i] = "fulfilled" /\ result[i] # Null)
        /\ (GotResponse(i) /\ ~GotSuccess(i) =>
               /\ fetchPc[i] = "rejected"
               /\ CarriesResource(result[i][1], page, i)
               /\ CarriesStatus(result[i][1], response[i][1].status))

(* C2 as amended: every fetch client returns the decoded JSON payload
   (getGlobalData its data member; getApodRange and getSolarFlares sort what
   fetchNASA decoded) when the response status is in the success range, and
   otherwise fails with an Error: the CoinGecko clients' error names the
   resource but carries no HTTP status, and fetchNASA's error carries the
   HTTP status and status text but not the resource. *)
C2_FetchClientResult ==
    \A i \in Slots :
        /\ (GotSuccess(i) =>
               /\ fetchPc[i] \in {"decoding", "fulfilled"}
               /\ (fetchPc[i] = "decoding" => result[i] = Null)
               /\ (fetchPc[i] = "fulfilled" =>
                      LET body == response[i][1].body
                          value == result[i][1]
                      IN  IF page = "crypto" /\ i = 1 THEN value = body.data
                          ELSE IF page = "nasa" /\ i = 1
                               THEN IsSortedCopy(value, body,
                                                 [k \in 1..Len(value) |-> value[k].date])
                          ELSE IF page = "nasa" /\ i = 3
                               THEN IsSortedCopy(value, body,
                                                 [k \in 1..Len(value) |-> value[k].beginTime])
                          ELSE value = body))
        /\ (GotResponse(i) /\ ~GotSuccess(i) =>
               /\ fetchPc[i] = "rejected"
               /\ result[i][1].name = "Error"
               /\ (page = "crypto" =>
                      /\ CarriesResource(result[i][1], page, i)
                      /\ ~CarriesStatus(result[i][1], response[i][1].status))
               /\ (page = "nasa" =>
                      /\ CarriesStatus(result[i][1], response[i][1].status)
                      /\ response[i][1].statusText \in Range(result[i][1].message)
                      /\ ~CarriesResource(result[i][1], page, i)))

\* on one page, a client has returned a non-empty payload and another has
\* failed on an error status
C2_Witness ==
    /\ page = "crypto"
    /\ fetchPc[1] = "fulfilled"
    /\ fetchPc[2] = "rejected" /\ GotResponse(2) /\ response[2][1].status = 429
    /\ fetchPc[3] = "fulfilled" /\ Len(result[3][1].prices) > 0

C2_NasaFailureReached ==
    /\ page = "nasa"
    /\ fetchPc[1] = "fulfilled" /\ Len(result[1][1]) > 1
    /\ fetchPc[3] = "rejected" /\ GotResponse(3)

\* what the page would compute from the responses of this render alone
OutputOfResponses ==
    PageOutput(page, [i \in Slots |-> ClientValue(page, i, response[i][1].body)])

C3_State ==
    /\ (pagePc # "idle" => \A i \in Slots : calls[i] = 1)
    /\ (pagePc = "rendered" =>
           /\ \A i \in Slots : GotSuccess(i)
           /\ out = Some(OutputOfResponses))
    /\ (pagePc = "failed" =>
           \E i \in Slots : GotFailure(i) /\ pageError = result[i])

C3_Step ==
    /\ (renderNo' = renderNo =>
           \A i \in Slots :
               /\ calls'[i] = calls[i]
               /\ (fetchPc[i] = "rejected" =>
                      fetchPc'[i] = "rejected" /\ response'[i] = response[i]))
    /\ (renderNo' # renderNo =>
           /\ renderNo' = renderNo + 1
           /\ \A i \in Slots :
                  /\ fetchPc'[i] = "pending"
                  /\ calls'[i] = 1
                  /\ response'[i] = Null
                  /\ result'[i] = Null
           /\ all' = AllPending
           /\ out' = Null
           /\ pageError' = Null)

(* C3: within one render each resource is requested exactly once, a failed
   fetch is never re-issued, and a failed render leaves no state behind: a
   later render issues its own three fresh requests and its outcome depends
   only on their responses. *)
C3_NoRetryFreshRender == [](C3_State) /\ [][C3_Step]_vars

\* a render that succeeded after an earlier render had failed
C3_Witness ==
    /\ renderNo >= 2
    /\ outcomes[Len(outcomes)] = "failed"
    /\ pagePc = "rendered"
    /\ \A i \in Slots : calls[i] = 1

----------------------------------------------------------------------------
(* Reference notions the price claims are stated with *)

SetMax(S) == CHOOSE x \in S : \A y \in S : y <= x

BarValues == {priceBars[k].value : k \in 1..Len(priceBars)}

UpMoves(ps) == {i \in 1..(Len(ps) - 1) : ps[i + 1][2] > ps[i][2]}
DownMoves(ps) == {i \in 1..(Len(ps) - 1) : ps[i + 1][2] < ps[i][2]}
FlatMoves(ps) == {i \in 1..(Len(ps) - 1) : ps[i + 1][2] = ps[i][2]}

AllEqual(ps) == \A i, j \in 1..Len(ps) : ps[i][2] = ps[j][2]

BarsBuilt == "buildPriceBars" \in called
GreenComputed == "computeGreenRate" \in called

VolumeBuilt == "buildVolumeBars" \in called

\* the 24h volume of the k-th coin, 0 when the feed has none
CoinVolume(k) ==
    IF topCoins[k].total_volume = Null THEN 0 ELSE topCoins[k].total_volume[1]

\* h is x = num / den rounded to the nearest integer, halves up
IsRounded(h, num, den) == 2 * den * h <= 2 * num + den /\ 2 * num + den < 2 * den * (h + 1)

----------------------------------------------------------------------------
(* C4: buildPriceBars(S, n) returns at most n bars, and the empty list when
   S is empty. *)
C4_AtMostNBars ==
    BarsBuilt =>
        /\ Len(priceBars) <= maxPoints
        /\ (Len(prices) = 0 => priceBars = <<>>)

\* a series longer than n, sampled with a step above 1, is cut down to n bars
C4_Witness ==
    /\ BarsBuilt
    /\ Len(prices) \div maxPoints >= 2
    /\ Len(prices) > 2 * maxPoints
    /\ Len(priceBars) = maxPoints

(* C5: every bar of buildPriceBars(S, n) has a height in [0,100], equal to
   round(price / max(retained prices) * 100), or 0 when that maximum is 0. *)
C5_HeightIsRoundedShare ==
    BarsBuilt =>
        \A k \in 1..Len(priceBars) :
            LET h == priceBars[k].height
                m == SetMax(BarValues)
            IN  /\ h \in 0..100
                /\ (m = 0 => h = 0)
                /\ (m # 0 => IsRounded(h, priceBars[k].value * 100, m))

\* a bar strictly below the retained maximum, in a series whose overall
\* maximum was dropped by the sampling
C5_Witness ==
    /\ BarsBuilt
    /\ \E k \in 1..Len(priceBars) : priceBars[k].height \in 1..99
    /\ \E i \in 1..Len(prices) : prices[i][2] > SetMax(BarValues)

(* C6 as stated: for every non-empty series whose prices are all equal,
   every returned bar has height 100. *)
C6_Original ==
    (BarsBuilt /\ Len(prices) > 0 /\ AllEqual(prices)) =>
        \A k \in 1..Len(priceBars) : priceBars[k].height = 100

(* C6 as amended: for every non-empty series whose prices are all equal and
   not zero, every returned bar has height 100; when they are all zero every
   returned bar has height 0. *)
C6_AllEqualHeights ==
    (BarsBuilt /\ Len(prices) > 0 /\ AllEqual(prices)) =>
        /\ Len(priceBars) > 0
        /\ \A k \in 1..Len(priceBars) :
              priceBars[k].height = IF prices[1][2] # 0 THEN 100 ELSE 0

C6_Witness ==
    /\ BarsBuilt
    /\ Len(prices) > maxPoints
    /\ AllEqual(prices)
    /\ prices[1][2] > 1
    /\ Len(priceBars) > 1
    /\ \A k \in 1..Len(priceBars) : priceBars[k].height = 100

(* C7 as stated: up counts exactly the consecutive pairs whose later price
   is strictly greater, down exactly those whose later price is strictly
   less, equal pairs are in neither, so up + down <= length(S) - 1. *)
C7_Original ==
    GreenComputed =>
        /\ green.up = Cardinality(UpMoves(prices))
        /\ green.down = Cardinality(DownMoves(prices))
        /\ green.up + green.down <= Len(prices) - 1

(* C7 as amended: the same counts, with up + down <= length(S) - 1 for every
   non-empty series; for the empty series up + down = 0. *)
C7_UpDownCounts ==
    GreenComputed =>
        /\ green.up = Cardinality(UpMoves(prices))
        /\ green.down = Cardinality(DownMoves(prices))
        /\ green.up + green.down + Cardinality(FlatMoves(prices))
              = Max2(0, Len(prices) - 1)
        /\ (Len(prices) > 0 => green.up + green.down <= Len(prices) - 1)
        /\ (Len(prices) = 0 => green.up + green.down = 0)

\* a series with an up move, a down move and a flat move
C7_Witness ==
    /\ GreenComputed
    /\ green.up > 0
    /\ green.down > 0
    /\ FlatMoves(prices) # {}
    /\ green.up + green.down < Len(prices) - 1

(* C8: greenRate = up / (up + down) * 100, a value in [0,100]; the result is
   {up: 0, down: 0, greenRate: 0} whenever up + down = 0, which includes
   every series with fewer than two samples and every series with only flat
   moves. *)
C8_GreenRate ==
    GreenComputed =>
        LET u == Cardinality(UpMoves(prices))
            d == Cardinality(DownMoves(prices))
            g == green.greenRate
        IN  /\ g.den > 0
            /\ 0 <= g.num /\ g.num <= 100 * g.den
            /\ (u + d > 0 => g.num * (u + d) = 100 * u * g.den)
            /\ (u + d = 0 => green = NoGreen)
            /\ (Len(prices) < 2 => green = NoGreen)
            /\ (UpMoves(prices) \cup DownMoves(prices) = {} => green = NoGreen)

\* a rate strictly between 0 and 100 computed over a series with a flat move
C8_Witness ==
    /\ GreenComputed
    /\ FlatMoves(prices) # {}
    /\ green.greenRate.num > 0
    /\ green.greenRate.num < 100 * green.greenRate.den
    /\ green.up # green.down

\* a series of flat moves only, which yields the all-zero result
C8_FlatOnlyReached ==
    /\ GreenComputed
    /\ Len(prices) >= 3
    /\ AllEqual(prices)
    /\ green = NoGreen

(* C9 as stated: for the prices 100, 110, 105, 105, 120 computeGreenRate
   returns up = 2, down = 1 and greenRate = 66.67. *)
C9_Original ==
    (GreenComputed /\ prices = ScenarioSeries) =>
        /\ green.up = 2
        /\ green.down = 1
        /\ green.greenRate.num * 100 = 6667 * green.greenRate.den

(* C9 as amended: for that series computeGreenRate returns up = 2, down = 1
   and greenRate = 200/3 (66.666...), unrounded; it is 66.67 only once
   rounded to two decimals. *)
C9_Scenario ==
    (GreenComputed /\ prices = ScenarioSeries) =>
        /\ green.up = 2
        /\ green.down = 1
        /\ green.greenRate.num * 3 = 200 * green.greenRate.den
        /\ MathRound(green.greenRate.num * 100, green.greenRate.den) = 6667

C9_Witness ==
    /\ GreenComputed
    /\ prices = ScenarioSeries
    /\ green.up = 2

(* C10: every height returned by buildVolumeBars is in [0,100], and whenever
   the maximum 24h volume in the list is greater than 0 the coin holding
   that maximum gets height exactly 100. *)
C10_VolumeHeights ==
    VolumeBuilt =>
        /\ \A k \in 1..Len(volumeBars) : volumeBars[k].height \in 0..100
        /\ \A k \in 1..Len(topCoins) :
              (/\ CoinVolume(k) > 0
               /\ \A j \in 1..Len(topCoins) : CoinVolume(j) <= CoinVolume(k))
              => (k <= Len(volumeBars) /\ volumeBars[k].height = 100)

\* a list with a positive maximum, a smaller positive volume and a coin
\* without volume data
C10_Witness ==
    /\ VolumeBuilt
    /\ \E k \in 1..Len(volumeBars) : volumeBars[k].height = 100
    /\ \E k \in 1..Len(volumeBars) : volumeBars[k].height \in 1..99
    /\ \E k \in 1..Len(topCoins) : topCoins[k].total_volume = Null

(* C11: buildVolumeBars returns exactly one bar per input coin, in input
   order; a coin whose 24h volume is missing (null) or zero gets height 0
   and is not dropped; when all volumes are 0 every height is the number 0. *)
C11_OneBarPerCoin ==
    VolumeBuilt =>
        /\ Len(volumeBars) = Len(topCoins)
        /\ \A k \in 1..Len(topCoins) :
              /\ volumeBars[k].label = ToUpperCase(topCoins[k].symbol)
              /\ volumeBars[k].value = topCoins[k].total_volume
              /\ (CoinVolume(k) = 0 => volumeBars[k].height = 0)
        /\ ((\A k \in 1..Len(topCoins) : CoinVolume(k) = 0)
              => \A k \in 1..Len(volumeBars) : volumeBars[k].height = 0)

\* a list holding a coin without volume data, a coin of volume 0 and a coin
\* of positive volume: three bars, the first two of height 0
C11_Witness ==
    /\ VolumeBuilt
    /\ \E i, j, k \in 1..Len(topCoins) :
          /\ topCoins[i].total_volume = Null
          /\ topCoins[j].total_volume = Num(0)
          /\ CoinVolume(k) > 0
          /\ Len(volumeBars) >= k
          /\ volumeBars[k].height > 0

\* a non-empty list whose volumes are all null or 0
C11_AllZeroReached ==
    /\ VolumeBuilt
    /\ Len(topCoins) >= 2
    /\ \A k \in 1..Len(topCoins) : CoinVolume(k) = 0
    /\ \E k \in 1..Len(topCoins) : topCoins[k].total_volume = Null
    /\ Len(volumeBars) = Len(topCoins)

----------------------------------------------------------------------------
(* Reference notions the coin claims are stated with *)

ShareComputed == "marketShare" \in called

\* the market cap of the k-th coin, 0 when the feed has none
CoinCap(k) ==
    IF topCoins[k].market_cap = Null THEN 0 ELSE topCoins[k].market_cap[1]

\* the sum of the market caps of the first n coins
RECURSIVE CapSum(_)
CapSum(n) == IF n = 0 THEN 0 ELSE CoinCap(n) + CapSum(n - 1)

\* a / b plus c / d
RatAdd(x, y) == Rat(x.num * y.den + y.num * x.den, x.den * y.den)

\* the sum of the first n computed shares
RECURSIVE ShareSum(_)
ShareSum(n) ==
    IF n = 0 THEN Rat(0, 1) ELSE RatAdd(ShareSum(n - 1), marketShare[n].share)

\* the coin list with the market cap of its coin at position k changed to cap
WithCap(k, cap) ==
    [i \in 1..Len(topCoins) |->
        IF i = k THEN Coin(i, cap, Num(1), Null) ELSE topCoins[i]]

(* C12: market share is computed over the first five coins only, share[i] =
   marketCap[i] / sum(marketCap of those coins) * 100; the shares sum to 100
   when that sum is above 0 and every share is 0 when it is 0 or the list is
   empty; a coin ranked sixth or later changes no share. *)
C12_MarketShare ==
    ShareComputed =>
        LET n == IF Len(topCoins) <= 5 THEN Len(topCoins) ELSE 5
            sum == CapSum(n)
        IN  /\ Len(marketShare) = n
            /\ \A k \in 1..n :
                  LET sh == marketShare[k].share
                  IN  /\ marketShare[k].id = topCoins[k].id
                      /\ sh.den > 0
                      /\ (sum > 0 => sh.num * sum = CoinCap(k) * 100 * sh.den)
                      /\ (sum = 0 => sh.num = 0)
            /\ (sum > 0 => ShareSum(n).num = 100 * ShareSum(n).den)
            /\ (sum = 0 => ShareSum(n).num = 0)
            /\ \A k \in 6..Len(topCoins) :
                  /\ MarketShareOf(SubSeq(topCoins, 1, k - 1)) = marketShare
                  /\ \A c \in 0..(MaxCap + 1) :
                        MarketShareOf(WithCap(k, Num(c))) = marketShare

\* six coins, the sixth with a market cap, the first five with unequal shares
C12_Witness ==
    /\ ShareComputed
    /\ Len(topCoins) = 6
    /\ CoinCap(6) > 0
    /\ Len(marketShare) = 5
    /\ \E j, k \in 1..5 :
          /\ CoinCap(j) > CoinCap(k)
          /\ CoinCap(k) > 0
          /\ marketShare[k].share.num > 0
    /\ \E k \in 1..5 : topCoins[k].market_cap = Null

\* five or more coins whose first five have no market cap at all
C12_ZeroSumReached ==
    /\ ShareComputed
    /\ Len(topCoins) = 6
    /\ CapSum(5) = 0
    /\ CoinCap(6) > 0
    /\ Len(marketShare) = 5

GainerPicked == "topGainer" \in called
LoserPicked == "topLoser" \in called
AvgComputed == "avgChange24h" \in called

\* the positions of the coins that have a 24h change
Rated == {k \in 1..Len(topCoins) : topCoins[k].price_change_percentage_24h # Null}

\* the 24h change of the rated coin at position k
CoinChange(k) == topCoins[k].price_change_percentage_24h[1]

\* the sum of the changes of the rated coins among the first n
RECURSIVE ChangeSum(_)
ChangeSum(n) ==
    IF n = 0 THEN 0
    ELSE (IF n \in Rated THEN CoinChange(n) ELSE 0) + ChangeSum(n - 1)

SetMin(S) == CHOOSE x \in S : \A y \in S : x <= y

(* C13: for every coin list with at least one non-null 24h change, the top
   gainer's change is >= the change of every coin with a non-null change and
   the top loser's change is <= the change of every such coin. *)
C13_GainerLoserExtremes ==
    Rated # {} =>
        /\ GainerPicked =>
              /\ topGainer # Null
              /\ topGainer[1] \in Range(topCoins)
              /\ \A k \in Rated :
                    topGainer[1].price_change_percentage_24h[1] >= CoinChange(k)
        /\ LoserPicked =>
              /\ topLoser # Null
              /\ topLoser[1] \in Range(topCoins)
              /\ \A k \in Rated :
                    topLoser[1].price_change_percentage_24h[1] <= CoinChange(k)

\* a list with three different changes and a coin without one, the extremes
\* neither first nor last in the list
C13_Witness ==
    /\ GainerPicked
    /\ LoserPicked
    /\ Cardinality({CoinChange(k) : k \in Rated}) >= 3
    /\ Rated # 1..Len(topCoins)
    /\ topGainer[1].id \notin {1, Len(topCoins)}
    /\ topLoser[1].id \notin {1, Len(topCoins)}
    /\ topGainer[1].price_change_percentage_24h[1]
          > topLoser[1].price_change_percentage_24h[1]

(* C14: when several coins share the maximum (minimum) non-null 24h change,
   the top gainer (top loser) is the one that occurs first in the list. *)
C14_FirstOccurrenceWins ==
    Rated # {} =>
        LET hi == SetMax({CoinChange(k) : k \in Rated})
            lo == SetMin({CoinChange(k) : k \in Rated})
        IN  /\ GainerPicked =>
                  topGainer = Some(topCoins[SetMin({k \in Rated : CoinChange(k) = hi})])
            /\ LoserPicked =>
                  topLoser = Some(topCoins[SetMin({k \in Rated : CoinChange(k) = lo})])

\* two coins tied for the maximum and two tied for the minimum, the first of
\* each tie not at the head of the list
C14_Witness ==
    /\ GainerPicked
    /\ LoserPicked
    /\ \E i, j \in Rated :
          /\ i < j
          /\ CoinChange(i) = CoinChange(j)
          /\ topGainer[1].id = i
          /\ i > 1
    /\ \E i, j \in Rated :
          /\ i < j
          /\ CoinChange(i) = CoinChange(j)
          /\ topLoser[1].id = i
    /\ topGainer # topLoser

(* C15: a coin whose 24h change is null takes part in no change aggregate and
   is never counted as zero: it is never the gainer or the loser, the average
   is the mean over the coins with a change, and when no coin has one the
   gainer and the loser are absent and the average is 0. *)
C15_NullExcluded ==
    /\ GainerPicked =>
          /\ (topGainer # Null => topGainer[1].price_change_percentage_24h # Null)
          /\ (Rated = {} => topGainer = Null)
    /\ LoserPicked =>
          /\ (topLoser # Null => topLoser[1].price_change_percentage_24h # Null)
          /\ (Rated = {} => topLoser = Null)
    /\ AvgComputed =>
          /\ avgChange24h.den > 0
          /\ (Rated # {} =>
                avgChange24h.num * Cardinality(Rated)
                   = ChangeSum(Len(topCoins)) * avgChange24h.den)
          /\ (Rated = {} => avgChange24h.num = 0)

\* coins without a change next to coins whose changes are all negative: were
\* null counted as zero it would be the gainer and would raise the average
C15_Witness ==
    /\ GainerPicked
    /\ LoserPicked
    /\ AvgComputed
    /\ Rated # {}
    /\ 1 \notin Rated
    /\ \A k \in Rated : CoinChange(k) < 0
    /\ topGainer # Null
    /\ avgChange24h.num * Len(topCoins) # ChangeSum(Len(topCoins)) * avgChange24h.den

\* coins without a change next to coins whose changes are all positive
C15_AllPositiveReached ==
    /\ LoserPicked
    /\ AvgComputed
    /\ Rated \notin {{}, 1..Len(topCoins)}
    /\ \A k \in Rated : CoinChange(k) > 0
    /\ topLoser # Null

\* a non-empty list in which no coin has a change
C15_NoneRatedReached ==
    /\ GainerPicked
    /\ LoserPicked
    /\ AvgComputed
    /\ Len(topCoins) >= 2
    /\ Rated = {}
    /\ topGainer = Null
    /\ topLoser = Null

----------------------------------------------------------------------------
(* Reference notions the NEO claims are stated with *)

Flattened == "flattenNeos" \in called
NeoBarsBuilt == "buildNeoBars" \in called
HazardsComputed == "computeNeoHazards" \in called

\* the positions of the flattened list that hold a hazardous object
HazardousAt == {k \in 1..Len(flatNeos) : flatNeos[k].is_potentially_hazardous_asteroid}

\* the day keys of the feed
DayKeys == {nearEarthObjects[k][1] : k \in 1..Len(nearEarthObjects)}

\* the number of objects the feed lists under day key d
CountOn(d) ==
    Len(nearEarthObjects[CHOOSE k \in 1..Len(nearEarthObjects) :
                            nearEarthObjects[k][1] = d][2])

\* the k-th day key in ascending order
KthDay(k) == CHOOSE d \in DayKeys : Cardinality({e \in DayKeys : e <= d}) = k

(* C16: computeNeoHazards returns total = number of objects, hazardous =
   number of objects flagged hazardous (hazardous <= total), and hazardRate =
   hazardous / total * 100, in [0,100] and 0 when total is 0; ten objects of
   which three are hazardous give hazardRate = 30. *)
C16_HazardCounts ==
    HazardsComputed =>
        LET rate == hazards.hazardRate
        IN  /\ hazards.total = Len(flatNeos)
            /\ hazards.hazardous = Cardinality(HazardousAt)
            /\ hazards.hazardous <= hazards.total
            /\ rate.den > 0
            /\ 0 <= rate.num /\ rate.num <= 100 * rate.den
            /\ (Len(flatNeos) > 0 =>
                  rate.num * Len(flatNeos) = Cardinality(HazardousAt) * 100 * rate.den)
            /\ (Len(flatNeos) = 0 => rate.num = 0)
            /\ (nearEarthObjects = HazardFixture =>
                  /\ hazards.total = 10
                  /\ hazards.hazardous = 3
                  /\ rate.num = 30 * rate.den)

\* the fixture of ten objects, three of them hazardous
C16_Witness ==
    /\ HazardsComputed
    /\ nearEarthObjects = HazardFixture
    /\ hazards.total = 10
    /\ hazards.hazardous = 3

\* objects of two days, some hazardous and some not
C16_MixedReached ==
    /\ HazardsComputed
    /\ Len(nearEarthObjects) = 2
    /\ hazards.hazardous > 0
    /\ hazards.hazardous < hazards.total
    /\ hazards.total >= 3

(* C17: for an empty NEO map flattenNeos followed by computeNeoHazards yields
   {total: 0, hazardous: 0, hazardRate: 0, avgDiameterKm: 0} and buildNeoBars
   yields the empty bar list, each of them a value and not an error. *)
C17_EmptyFeed ==
    nearEarthObjects = <<>> =>
        /\ Flattened => flatNeos = <<>>
        /\ HazardsComputed =>
              /\ hazards.total = 0
              /\ hazards.hazardous = 0
              /\ hazards.hazardRate.den > 0 /\ hazards.hazardRate.num = 0
              /\ hazards.avgDiameterKm.den > 0 /\ hazards.avgDiameterKm.num = 0
        /\ NeoBarsBuilt => neoBars = <<>>

\* the three helpers have run on the empty map
C17_Witness ==
    /\ nearEarthObjects = <<>>
    /\ Flattened
    /\ HazardsComputed
    /\ NeoBarsBuilt
    /\ hazards = NoHazards

ClosestPicked == "pickClosestNeos" \in called

\* the positions of the objects that have a close-approach record
WithRecord == {k \in 1..Len(flatNeos) : Len(flatNeos[k].close_approach_data) > 0}

\* the number a string of one or two decimal digits denotes
DigitsValue(digits) == IF Len(digits) = 1 THEN digits[1] ELSE 10 * digits[1] + digits[2]

\* the miss distance of the first close-approach record of the object at k
FirstMiss(k) == DigitsValue(flatNeos[k].close_approach_data[1].miss_distance.kilometers)

\* the positions of the objects that were returned
Returned == {k \in WithRecord : \E i \in 1..Len(closestNeos) : closestNeos[i].id = flatNeos[k].id}

(* C18: pickClosestNeos ranks each object by the miss distance of its first
   close-approach record only, omits every object without a record, and
   returns min(K, number of objects with a record) entries sorted ascending
   by that miss distance, each at least as close as every object with a
   record that was not returned. *)
C18_ClosestFirstApproach ==
    ClosestPicked =>
        /\ Len(closestNeos) =
              (IF pickLimit <= Cardinality(WithRecord) THEN pickLimit
               ELSE Cardinality(WithRecord))
        /\ Cardinality(Returned) = Len(closestNeos)
        /\ \A i \in 1..Len(closestNeos) :
              \E k \in WithRecord :
                  /\ closestNeos[i].id = flatNeos[k].id
                  /\ closestNeos[i].missKm = FirstMiss(k)
        /\ \A i, j \in 1..Len(closestNeos) :
              i < j => closestNeos[i].missKm <= closestNeos[j].missKm
        /\ \A i \in 1..Len(closestNeos) : \A k \in WithRecord \ Returned :
              closestNeos[i].missKm <= FirstMiss(k)

\* an object without a record, an object left out by the limit, and a
\* returned object whose later record is closer than the record it was
\* ranked by; the returned objects are not in input order
C18_Witness ==
    /\ ClosestPicked
    /\ WithRecord # 1..Len(flatNeos)
    /\ WithRecord \ Returned # {}
    /\ Len(closestNeos) = 2
    /\ closestNeos[1].id > closestNeos[2].id
    /\ closestNeos[1].missKm < closestNeos[2].missKm
    /\ Len(closestNeos[2].close_approach_data) = 2
    /\ \E k \in WithRecord \ Returned : Len(flatNeos[k].close_approach_data) = 2

\* a limit above the number of objects with a record
C18_ShortReached ==
    /\ ClosestPicked
    /\ Cardinality(WithRecord) = 1
    /\ Len(flatNeos) > 1
    /\ pickLimit = 2
    /\ Len(closestNeos) = 1

(* C19: buildNeoBars returns one bar per distinct day key of the feed, a day
   key with an empty list included (count 0), in ascending day order, with
   count = number of objects listed under that day and height =
   round(count / max count over all days * 100): the busiest day has height
   100 when it has an object, and every height is 0 when all days are
   empty. *)
C19_OneBarPerDay ==
    NeoBarsBuilt =>
        /\ Len(neoBars) = Cardinality(DayKeys)
        /\ \A k \in 1..Len(neoBars) :
              LET count == CountOn(KthDay(k))
                  maxCount == SetMax({CountOn(d) : d \in DayKeys})
              IN  /\ neoBars[k].count = count
                  /\ (maxCount > 0 => IsRounded(neoBars[k].height, count * 100, maxCount))
                  /\ (maxCount = 0 => neoBars[k].height = 0)
                  /\ (count = maxCount /\ count > 0 => neoBars[k].height = 100)

\* two day keys, the later one inserted first and a day apart from the
\* earlier, which lists fewer objects
C19_Witness ==
    /\ NeoBarsBuilt
    /\ Len(nearEarthObjects) = 2
    /\ nearEarthObjects[1][1] > nearEarthObjects[2][1] + 1
    /\ Len(neoBars) = 2
    /\ neoBars[1].height \in 1..99
    /\ neoBars[2].height = 100

\* a day key with an empty list next to a day with objects
C19_EmptyDayReached ==
    /\ NeoBarsBuilt
    /\ Len(neoBars) = 2
    /\ neoBars[1].count > 0
    /\ neoBars[2].count = 0
    /\ neoBars[2].height = 0

\* day keys whose lists are all empty
C19_AllEmptyReached ==
    /\ NeoBarsBuilt
    /\ Len(neoBars) = 2
    /\ \A k \in 1..2 : neoBars[k].count = 0 /\ neoBars[k].height = 0

FlaresGrouped == "groupFlaresByDay" \in called

\* the positions of the flares that begin on day d
FlaresOn(d) ==
    {k \in 1..Len(flareList) :
        /\ d * SamplesPerDay <= flareList[k].beginTime
        /\ flareList[k].beginTime < (d + 1) * SamplesPerDay}

\* the sum of the counts of the first n entries
RECURSIVE CountSum(_)
CountSum(n) == IF n = 0 THEN 0 ELSE flareByDay[n].count + CountSum(n - 1)

(* C20: groupFlaresByDay returns one entry per distinct calendar day that has
   at least one flare, each with count = number of flares beginning that day
   (every count >= 1, the counts sum to the number of flares), sorted
   strictly ascending by day; a day with no flare never appears. *)
C20_FlaresByDay ==
    FlaresGrouped =>
        /\ \A i \in 1..Len(flareByDay) :
              /\ flareByDay[i].count = Cardinality(FlaresOn(flareByDay[i].date))
              /\ flareByDay[i].count >= 1
        /\ \A d \in 0..MaxFlareDays :
              FlaresOn(d) # {} => \E i \in 1..Len(flareByDay) : flareByDay[i].date = d
        /\ \A i, j \in 1..Len(flareByDay) :
              i < j => flareByDay[i].date < flareByDay[j].date
        /\ CountSum(Len(flareByDay)) = Len(flareList)

\* flares listed latest first, two of them at different times of one day,
\* and a day between without any flare
C20_Witness ==
    /\ FlaresGrouped
    /\ Len(flareList) = 3
    /\ flareList[1].beginTime > flareList[2].beginTime
    /\ flareList[2].beginTime > flareList[3].beginTime
    /\ Len(flareByDay) = 2
    /\ flareByDay[2].date > flareByDay[1].date + 1
    /\ flareByDay[1].count = 2

----------------------------------------------------------------------------
(* Reference notions the transform-step claims are stated with *)

\* what the clients returned: the coin list and the price series as fetched
FetchedCoins == result[2][1]
FetchedPrices == result[3][1].prices

AllTransformsDone ==
    called = {"buildPriceBars", "computeGreenRate", "buildVolumeBars", "marketShare",
              "topGainer", "topLoser", "avgChange24h"}

(* C21: the transform step leaves its inputs as they were fetched:
   buildPriceBars, computeGreenRate, buildVolumeBars and the gainer/loser
   selection leave the price series and the coin list unchanged in content
   and order, so the list given to the top-coins table and the top-5 slice of
   the market share are in fetch order, whatever the order in which the
   derived values are computed. *)
C21_InputsUnchanged ==
    /\ topCoins = FetchedCoins
    /\ prices = FetchedPrices
    /\ \A k \in 1..Len(topCoins) : topCoins[k].market_cap_rank = k
    /\ \A k \in 1..Len(prices) : prices[k][1] = k
    /\ ShareComputed =>
          /\ Len(marketShare) = Len(SliceFirst(FetchedCoins, 5))
          /\ \A k \in 1..Len(marketShare) : marketShare[k].id = FetchedCoins[k].id
    /\ VolumeBuilt =>
          /\ Len(volumeBars) = Len(FetchedCoins)
          /\ \A k \in 1..Len(volumeBars) : volumeBars[k].value = FetchedCoins[k].total_volume

\* every derived value computed, on a list that either selection's sort
\* would reorder: its changes neither ascending nor descending
C21_Witness ==
    /\ AllTransformsDone
    /\ prices = ScenarioSeries
    /\ Len(topCoins) = 3
    /\ Rated = 1..3
    /\ CoinChange(2) > CoinChange(1)
    /\ CoinChange(2) > CoinChange(3)
    /\ topGainer[1].id = 2
    /\ topLoser[1].id # 1
    /\ topCoins = FetchedCoins

----------------------------------------------------------------------------
(* Reference computation of the price bars *)

\* step = max(1, floor(length / n))
RefStep == IF Len(prices) \div maxPoints >= 1 THEN Len(prices) \div maxPoints ELSE 1

\* the positions (from 1) of the samples at indices 0, step, 2 * step, ...
RefRetained == {i \in 1..Len(prices) : (i - 1) % RefStep = 0}

\* the last n of the retained positions
RefKept ==
    {i \in RefRetained :
        Cardinality({j \in RefRetained : j >= i}) <= maxPoints}

\* the k-th kept position in chronological order
RefKeptAt(k) == CHOOSE i \in RefKept : Cardinality({j \in RefKept : j <= i}) = k

(* C22: buildPriceBars(S, n) equals the reference computation: step =
   max(1, floor(length(S) / n)); the samples at indices 0, step, 2 * step, ...
   are retained; only the last n of them are kept; they are output in
   chronological order with value = the sample's price and height normalised
   against the maximum over the kept samples, not over the full series. *)
C22_ReferenceComputation ==
    BarsBuilt =>
        /\ Len(priceBars) = Cardinality(RefKept)
        /\ \A k \in 1..Len(priceBars) :
              LET sample == prices[RefKeptAt(k)]
                  maxKept == SetMax({prices[i][2] : i \in RefKept})
              IN  /\ priceBars[k].value = sample[2]
                  /\ priceBars[k].label = sample[1] \div SamplesPerDay
                  /\ (maxKept > 0 =>
                        IsRounded(priceBars[k].height, sample[2] * 100, maxKept))
                  /\ (maxKept = 0 => priceBars[k].height = 0)

\* a step of 2 that retains more than n samples: the earliest is dropped, and
\* with it the maximum of the series, so the heights are taken against a
\* smaller maximum
C22_Witness ==
    /\ BarsBuilt
    /\ RefStep = 2
    /\ Cardinality(RefRetained) > maxPoints
    /\ Len(priceBars) = maxPoints
    /\ prices[1][2] > SetMax({prices[i][2] : i \in RefKept})
    /\ \E k \in 1..Len(priceBars) : priceBars[k].height \in 1..99
    /\ \E i \in 1..Len(prices) :
          i \notin RefRetained /\ prices[i][2] > SetMax({prices[j][2] : j \in RefKept})

(* C23: for every price series S and every bar count n >= 1,
   buildPriceBars(S, n) returns exactly min(length(S), n) bars: all samples
   when the series is no longer than n, exactly n bars otherwise. *)
C23_ExactlyMinBars ==
    BarsBuilt =>
        /\ Len(priceBars) = (IF Len(prices) <= maxPoints THEN Len(prices) ELSE maxPoints)
        /\ (Len(prices) <= maxPoints =>
              \A k \in 1..Len(prices) : priceBars[k].value = prices[k][2])

\* a series longer than n whose length is no multiple of n, cut to n bars
C23_Witness ==
    /\ BarsBuilt
    /\ maxPoints >= 2
    /\ Len(prices) > maxPoints
    /\ Len(prices) % maxPoints # 0
    /\ Len(priceBars) = maxPoints

\* a series shorter than n, returned whole
C23_ShortReached ==
    /\ BarsBuilt
    /\ Len(prices) >= 1
    /\ Len(prices) < maxPoints
    /\ Len(priceBars) = Len(prices)

----------------------------------------------------------------------------
(* Reference notions the NEO consistency claims are stated with *)

\* the number of objects listed under the first n entries of the feed
RECURSIVE ListedIn(_)
ListedIn(n) == IF n = 0 THEN 0 ELSE Len(nearEarthObjects[n][2]) + ListedIn(n - 1)

\* the sum of the counts of the first n bars
RECURSIVE BarCountSum(_)
BarCountSum(n) == IF n = 0 THEN 0 ELSE neoBars[n].count + BarCountSum(n - 1)

(* C24: the aggregates derived from a NEO feed agree: flattenNeos yields one
   entry per object occurrence, tagged with the day key it was listed under,
   so computeNeoHazards(flattenNeos(feed)).total equals the sum of the
   lengths of the per-day lists and the sum of the counts of the bars of
   buildNeoBars(feed). *)
C24_AggregatesAgree ==
    /\ Flattened =>
          /\ Len(flatNeos) = ListedIn(Len(nearEarthObjects))
          /\ \A e \in 1..Len(nearEarthObjects) :
                \A k \in 1..Len(nearEarthObjects[e][2]) :
                    LET entry == flatNeos[ListedIn(e - 1) + k]
                        obj == nearEarthObjects[e][2][k]
                    IN  /\ entry.date = nearEarthObjects[e][1]
                        /\ \A f \in DOMAIN obj : entry[f] = obj[f]
    /\ HazardsComputed => hazards.total = ListedIn(Len(nearEarthObjects))
    /\ NeoBarsBuilt => BarCountSum(Len(neoBars)) = ListedIn(Len(nearEarthObjects))
    /\ (HazardsComputed /\ NeoBarsBuilt) => hazards.total = BarCountSum(Len(neoBars))

\* two days listing the same object, the later day first in the feed
C24_Witness ==
    /\ Flattened
    /\ HazardsComputed
    /\ NeoBarsBuilt
    /\ Len(nearEarthObjects) = 2
    /\ nearEarthObjects[1][1] > nearEarthObjects[2][1]
    /\ Len(nearEarthObjects[1][2]) = 2
    /\ Len(nearEarthObjects[2][2]) = 1
    /\ hazards.total = 3
    /\ flatNeos[1].id = flatNeos[3].id
    /\ flatNeos[1].date # flatNeos[3].date

----------------------------------------------------------------------------
(* C25: each entry returned by pickClosestNeos carries as its date the
   close_approach_date of the object's first close-approach record in place
   of the day key flattenNeos attached; every other field of the object (id,
   name, hazardous flag, diameter, approach list) is passed through
   unchanged, and the input list itself is not reordered. *)
C25_DateReplacedRestKept ==
    /\ [](ClosestPicked =>
            \A i \in 1..Len(closestNeos) :
                \E k \in WithRecord :
                    LET entry == closestNeos[i]
                        n == flatNeos[k]
                    IN  /\ entry.id = n.id
                        /\ entry.date = n.close_approach_data[1].close_approach_date
                        /\ \A f \in DOMAIN n \ {"date"} : entry[f] = n[f])
    /\ [][flatNeos' = flatNeos]_vars

\* two objects returned in the reverse of their input order, the closer with
\* two records, both dated by the first record and not by the day key
C25_Witness ==
    /\ ClosestPicked
    /\ Len(closestNeos) = 2
    /\ closestNeos[1].id > closestNeos[2].id
    /\ Len(closestNeos[1].close_approach_data) = 2
    /\ closestNeos[1].date # flatNeos[closestNeos[1].id].date
    /\ flatNeos[closestNeos[1].id].date = FlattenDay
    /\ closestNeos[1].is_potentially_hazardous_asteroid
          # closestNeos[2].is_potentially_hazardous_asteroid

====
